---- MODULE Spec2Model ----
(***************************************************************************)
(* The episode rollout engine of experiments/robot/libero/                 *)
(* run_libero_eval.py (eval_libero): the task loop, the episode loop, the  *)
(* step loop with its settling and acting steps, the motion-similarity     *)
(* bookkeeping, the tallies and the per-task JSON result file.             *)
(*                                                                         *)
(* The simulator and the policy are external: every env.step either raises *)
(* or returns done in BOOLEAN, every get_action either raises or returns   *)
(* one of RawActions.  Observations, images, total_steps and the text of   *)
(* the log lines carry no decision of the loop and are left out.           *)
(***************************************************************************)
EXTENDS Integers, Sequences, FiniteSets, TLC

\* ------------------------------------------------------------------ bounds
\* Tasks of the suite (task_suite.n_tasks).
NumTasks == 2
\* Largest cfg.num_trials_per_task tried.
MaxTrials == 2
\* Largest cfg.num_steps_wait tried.
MaxWait == 1
\* Ceiling applied to the per-suite max_steps so that a timeout is reachable.
MaxStepsCap == 2
\* Episodes each of the processes sharing a result file completes.
MaxUpdates == 2
\* Largest absolute value of a component of the action vectors compared.
MaxComponent == 2
\* Longest line of the one-line inputs given to convert_to_csv.
MaxChars == 7
\* Most lines of the inputs made of sample lines.
MaxLines == 2

\* ------------------------------------------------------------- values
\* A local that may not be assigned yet holds <<>> (unbound) or <<value>>.
Unbound == <<>>
Some(x) == <<x>>
Get(o) == o[1]
\* Python's None for action_previous.
None == <<>>
NoAbort == "none"

Min(a, b) == IF a < b THEN a ELSE b

\* Suite names the benchmark dictionary can construct; "libero_100" has no
\* branch in the max_steps chain.
Suites == {"libero_spatial", "libero_100"}

\* The if/elif chain that assigns max_steps.
MaxStepsTable ==
    [s \in {"libero_spatial", "libero_object", "libero_goal", "libero_10", "libero_90"} |->
        CASE s = "libero_spatial" -> 220
          [] s = "libero_object" -> 280
          [] s = "libero_goal" -> 300
          [] s = "libero_10" -> 520
          [] s = "libero_90" -> 400]

\* max_steps after the chain: the table entry (capped), or whatever the local held.
AssignMaxSteps(suite, old) ==
    IF suite \in DOMAIN MaxStepsTable
    THEN Some(Min(MaxStepsTable[suite], MaxStepsCap))
    ELSE old

\* Raw policy outputs: <<x, y, z, rx, ry, rz, gripper>>, gripper in the policy's [0,1].
RawActions ==
    { <<1, 0, 0, 0, 0, 1, 0>>,
      <<-1, 0, 0, 0, 0, 1, 1>> }

\* get_libero_dummy_action
DummyAction == <<0, 0, 0, 0, 0, 0, -1>>

Sign(x) == IF x > 0 THEN 1 ELSE IF x < 0 THEN -1 ELSE 0

\* normalize_gripper_action: [0,1] -> [-1,+1] on the last component, then sign.
normalize_gripper_action(a, binarize) ==
    [a EXCEPT ![7] = IF binarize THEN Sign(2 * a[7] - 1) ELSE 2 * a[7] - 1]

\* invert_gripper_action: flip the sign of the last component.
invert_gripper_action(a) == [a EXCEPT ![7] = -a[7]]

\* Variant: the gripper sign is not flipped back.
PostProcessWithoutInvert(a, family) == normalize_gripper_action(a, TRUE)

\* Lines 305-311: the pipeline between the policy and env.step.
PostProcess(a, family) ==
    LET n == normalize_gripper_action(a, TRUE)
    IN  IF family = "openvla" THEN invert_gripper_action(n) ELSE n

\* str(scale), str(ber) with scale = [] and ber = 0.
ScaleKey == "[]"
BerKey == "0"
\* Keys of an earlier run made with another scale and another bit-error rate.
OtherScaleKey == "[20, 60]"
OtherBerKey == "0.1"

EmptyDict == <<>>
NewLeaf == [total_times |-> 0, success_times |-> 0]
\* A path on disk: absent, a file holding a JSON object, or a file holding no
\* JSON text at all.
NoFile == [exists |-> FALSE, parses |-> FALSE, content |-> EmptyDict]
FileOf(d) == [exists |-> TRUE, parses |-> TRUE, content |-> d]
\* Line 358: open(file_path, 'w') empties the file before anything is dumped.
Truncated == [exists |-> TRUE, parses |-> FALSE, content |-> EmptyDict]

\* Result files a run can find on disk: none, one left by earlier runs with
\* other signatures only, or one that also holds this run's leaf.
InitialFiles ==
    { NoFile,
      FileOf([k \in {OtherScaleKey} |->
                [b \in {OtherBerKey} |-> [total_times |-> 3, success_times |-> 2]]]),
      FileOf([k \in {ScaleKey, OtherScaleKey} |->
                IF k = ScaleKey
                THEN [b \in {BerKey, OtherBerKey} |->
                        IF b = BerKey THEN [total_times |-> 1, success_times |-> 1]
                        ELSE [total_times |-> 2, success_times |-> 0]]
                ELSE [b \in {OtherBerKey} |-> [total_times |-> 3, success_times |-> 2]]]) }

\* Line 341 and line 343: json.load raises JSONDecodeError on a file without
\* JSON text.
LoadFails(file) == file.exists /\ ~file.parses

\* Lines 341-345: json.load of an existing file, {} otherwise.
LoadData(file) == IF file.exists THEN file.content ELSE EmptyDict

\* Variant: the update starts from a dictionary holding a fresh leaf only.
EnsureLeafOnly(d) == [k \in {ScaleKey} |-> [b \in {BerKey} |-> NewLeaf]]

\* Lines 347-353: create the missing levels.
EnsureLeaf(d) ==
    LET d1 == IF ScaleKey \in DOMAIN d THEN d
              ELSE [k \in DOMAIN d \cup {ScaleKey} |-> IF k = ScaleKey THEN EmptyDict ELSE d[k]]
        inner == d1[ScaleKey]
        inner1 == IF BerKey \in DOMAIN inner THEN inner
                  ELSE [b \in DOMAIN inner \cup {BerKey} |-> IF b = BerKey THEN NewLeaf ELSE inner[b]]
    IN  [d1 EXCEPT ![ScaleKey] = inner1]

\* Variant: an update counts the episode twice.
BumpLeafTwice(d, flag) ==
    LET leaf == d[ScaleKey][BerKey]
    IN  [d EXCEPT ![ScaleKey][BerKey] =
            [total_times |-> leaf.total_times + 2,
             success_times |-> IF flag THEN leaf.success_times + 1 ELSE leaf.success_times]]

\* Lines 354-356: the two increments, the second under `if done`.
BumpLeaf(d, flag) ==
    LET leaf == d[ScaleKey][BerKey]
    IN  [d EXCEPT ![ScaleKey][BerKey] =
            [total_times |-> leaf.total_times + 1,
             success_times |-> IF flag THEN leaf.success_times + 1 ELSE leaf.success_times]]

\* The leaf of this run's signature in a file, zero when absent.
LeafOf(file) ==
    LET d == LoadData(file)
    IN  IF ScaleKey \in DOMAIN d /\ BerKey \in DOMAIN d[ScaleKey]
        THEN d[ScaleKey][BerKey] ELSE NewLeaf

\* ---------------------------------------------------------------- state
VARIABLES
    cfg,              \* GenerateConfig fields the loop reads
    replan,           \* the replanning switch: the literal of line 260, which the
                      \* source ships as False; both positions are modelled
    pc,               \* position in eval_libero
    abort,            \* the exception that ended the run, NoAbort otherwise
    task_iter,        \* position of the range iterator of line 160
    task_id,          \* the local task_id
    task,             \* task fetched (index it belongs to)
    initial_states,   \* initial states fetched (task index they belong to)
    env,              \* environment built (task index it belongs to)
    episode_idx,
    init_state,       \* <<task, k>> of the state passed to env.set_init_state
    t,
    done,
    max_steps,
    replay_images,    \* number of buffered frames
    action,           \* the local action
    action_previous,
    actions_previous, \* the locals actions_previous_xyz / actions_previous_rot
    stored_now,       \* actions_previous was stored during the current episode
    task_episodes, task_successes, total_episodes, total_successes,
    files,            \* task description -> content of its JSON result file
    data,             \* the local data of lines 341-359
    obs,              \* what happened in the current episode
    task_done_count,  \* episodes of this task with done reported on an acting step
    run_done_count,   \* the same over the run
    shared,           \* a result file that several runs of the script update
    runs,             \* those runs: position in lines 340-359, data, updates done
    probe,            \* two consecutive actions and their similarity line
    csv               \* convert_to_csv: position, input lines, rows and warnings

evalVars == <<cfg, replan, pc, abort, task_iter, task_id, task, initial_states, env,
              episode_idx, init_state, t, done, max_steps, replay_images, action,
              action_previous, actions_previous, stored_now, task_episodes,
              task_successes, total_episodes, total_successes, files, data, obs,
              task_done_count, run_done_count>>
sharedVars == <<shared, runs>>
sideVars == <<sharedVars, probe, csv>>
vars == <<evalVars, sideVars>>

cfgVars == <<cfg, replan>>
taskVars == <<task_iter, task_id, task, initial_states, env>>
tallyVars == <<task_episodes, task_successes, total_episodes, total_successes>>
motionVars == <<action_previous, actions_previous, stored_now>>
ghostCounts == <<task_done_count, run_done_count>>

Tasks == 0 .. NumTasks - 1

FreshObs ==
    [ caught |-> FALSE,        \* an exception was caught in the step loop
      acting_done |-> FALSE,   \* env.step reported done on an acting step
      counted_task |-> FALSE,  \* task_successes was incremented
      counted_total |-> FALSE, \* total_successes was incremented
      ending |-> "none",       \* "done", "timeout" or "exception"
      env_resets |-> 0,        \* env.reset calls of the episode
      start_logged |-> FALSE,  \* the "Starting episode" line was written
      env_trace |-> <<>>,      \* the env.step calls issued
      policy_log |-> <<>>,     \* the get_action calls: step counter and returned action
      reports |-> <<>>,        \* the similarity computations, one motion_trace.out line each
      tracked |-> 0,           \* executions of the replan branch
      file_before |-> NewLeaf, \* the leaf before this episode's update
      file_start |-> NoFile,   \* the whole file before this episode's update
      video_tag |-> Unbound,   \* success flag given to save_rollout_video
      log_success |-> Unbound ]\* flag of the episode's "Success:" log line

EvalInit ==
    /\ cfg \in [task_suite_name : Suites,
                num_steps_wait : 0 .. MaxWait,
                num_trials_per_task : 1 .. MaxTrials,
                model_family : {"openvla"}]
    /\ replan \in BOOLEAN
    /\ pc = "task_loop"
    /\ abort = NoAbort
    /\ task_iter = 0
    /\ task_id = Unbound /\ task = Unbound /\ initial_states = Unbound /\ env = Unbound
    /\ episode_idx = 0
    /\ init_state = Unbound
    /\ t = 0
    /\ done = Unbound
    /\ max_steps = Unbound
    /\ replay_images = 0
    /\ action = Unbound
    /\ action_previous = None
    /\ actions_previous = Unbound
    /\ stored_now = FALSE
    /\ task_episodes = 0 /\ task_successes = 0
    /\ total_episodes = 0 /\ total_successes = 0
    /\ \E f \in InitialFiles : files = [d \in Tasks |-> f]
    /\ data = EmptyDict
    /\ obs = FreshObs
    /\ task_done_count = 0 /\ run_done_count = 0

\* Two processes of the script update one result file side by side.
Runs == {1, 2}
\* A process that has not reached its first update; start is the leaf the file
\* held when the processes were launched.
FreshRun(file) == [at |-> "idle", data |-> EmptyDict, updates |-> 0, start |-> LeafOf(file)]

\* No other process touches the result files of the run under study.
SharedIdle ==
    /\ shared = NoFile
    /\ runs = [r \in Runs |-> FreshRun(NoFile)]

NoProbe == [at |-> "idle", prev |-> <<>>, cur |-> <<>>, line |-> <<>>]

\* No similarity is computed outside the evaluation loop.
ProbeIdle == probe = NoProbe

NoConversion == [at |-> "idle", exists |-> FALSE, input |-> <<>>, n |-> 0,
                 rows |-> <<>>, warnings |-> <<>>]

\* convert_to_csv is not running.
CsvIdle == csv = NoConversion

Init ==
    /\ EvalInit
    /\ SharedIdle
    /\ ProbeIdle
    /\ CsvIdle

\* The evaluation loop of the run under study left at its start.
EvalParked ==
    /\ EvalInit
    /\ cfg = [task_suite_name |-> "libero_spatial", num_steps_wait |-> 0,
              num_trials_per_task |-> 1, model_family |-> "openvla"]
    /\ ~replan
    /\ files = [d \in Tasks |-> NoFile]

\* ------------------------------------------------------------ decisions
\* Line 163: the assignment that follows the loop header of line 160.
OverrideTaskId(i) == 0

\* Variant: the episode setup leaves action_previous alone.
SetupKeepsActionPrevious(old) == old

\* Line 196: action_previous at episode setup.
SetupActionPrevious(old) == None

\* Variant: the while condition admits one more iteration.
LoopContinuesInclusive(step, limit, wait) == step <= limit + wait

\* Line 210: the while condition.
LoopContinues(step, limit, wait) == step < limit + wait

\* Variant: the settling test admits one more no-op step.
IsSettlingInclusive(step, wait) == step <= wait

\* Line 214: the settling test.
IsSettling(step, wait) == step < wait

\* Variant: the replan branch never runs.
ReplanNever(flag) == FALSE

\* Variant: the replan branch runs whatever the switch says.
ReplanAlways(flag) == TRUE

\* Lines 260-261: replan = False; if replan. The literal is the run's switch.
ReplanEnabled(flag) == flag

\* Variant: the replan branch always takes the comparison arm.
PriorActionAssumed(prev) == FALSE

\* Line 262: the first-action test of the replan branch.
NoPriorAction(prev) == prev = None

\* Lines 216 and 329: t += 1.
NextStep(step) == step + 1

\* Variant: a success is counted twice.
SuccessTallyTwice(n) == n + 2

\* Lines 326-327: a success counter's increment.
SuccessTally(n) == n + 1

\* Variant: the episode counter is left as it was.
EpisodeTallySkipped(n) == n

\* Lines 336-337: an episode counter's increment.
EpisodeTally(n) == n + 1

\* Lines 355 and 364, 368, 371: the flag read after the loop is the local done.
OutcomeFlag(d) == Get(d)

xyz(a) == SubSeq(a, 1, 3)
rot(a) == SubSeq(a, 4, 6)

\* --------------------------------------------------- motion similarity
\* Largest magnitude of a sub-vector of the model.
NormRange == 0 .. 9

Dot(v, w) == v[1] * w[1] + v[2] * w[2] + v[3] * w[3]

\* np.linalg.norm(v, ord=2); the model's vectors have whole magnitudes.
Norm(v) == CHOOSE n \in NormRange : n * n = Dot(v, v)

\* 1 / 1e-6: the guard added to the denominator, as its reciprocal.
EpsilonInverse == 1000000

\* A quotient is kept exact, as <<numerator, denominator>> with denominator > 0.
\* Variant: the quotient of line 275 without the other vector's magnitude.
CosineOverOneNorm(v, w) ==
    <<Dot(v, w) * EpsilonInverse, Norm(v) * EpsilonInverse + 1>>

\* Lines 275-276: np.dot(v, w) / (|v| * |w| + 1e-6).
Cosine(v, w) ==
    <<Dot(v, w) * EpsilonInverse, Norm(v) * Norm(w) * EpsilonInverse + 1>>

\* Lines 275-276: min(., 1).
ClampToOne(q) == IF q[1] > q[2] THEN <<1, 1>> ELSE q

\* q < num / den, for den > 0.
QuotientBelow(q, num, den) == q[1] * den < num * q[2]

\* Lines 267-276: the four quantities of one comparison; cur and prev are
\* <<xyz, rot>>.
Similarity(cur, prev) ==
    [ xyz_fudu |-> Norm(cur[1]),
      xyz_changes_dir |-> ClampToOne(Cosine(cur[1], prev[1])),
      rot_fudu |-> Norm(cur[2]),
      rot_changes_dir |-> ClampToOne(Cosine(cur[2], prev[2])) ]

\* Line 288 (commented out in the source): the replan gate with its
\* thresholds 0.1 and 0.04.
ShouldReplan(r) ==
    \/ QuotientBelow(r.xyz_changes_dir, -1, 10)
    \/ QuotientBelow(r.rot_changes_dir, -1, 10)
    \/ r.xyz_fudu * 100 < 4
    \/ r.rot_fudu * 100 < 4

\* task_description of the fetched task, as the key of its result file.
Description(tk) == Get(tk)

\* ---------------------------------------------------------------- actions
\* Lines 160-175: next task of the suite.
TaskStart ==
    /\ pc = "task_loop"
    /\ task_iter < NumTasks
    /\ task_id' = Some(OverrideTaskId(task_iter))
    /\ task' = task_id'
    /\ initial_states' = task_id'
    /\ env' = task'
    /\ task_episodes' = 0
    /\ task_successes' = 0
    /\ task_done_count' = 0
    /\ episode_idx' = 0
    /\ pc' = "episode_loop"
    /\ UNCHANGED <<sideVars, cfgVars, abort, task_iter, init_state, t, done, max_steps, replay_images,
                   action, motionVars, total_episodes, total_successes, files, data,
                   obs, run_done_count>>

\* Lines 176-209: reset the environment and set up the episode.
EpisodeStart ==
    /\ pc = "episode_loop"
    /\ episode_idx < cfg.num_trials_per_task
    /\ init_state' = <<Get(initial_states), episode_idx>>
    /\ t' = 0
    /\ replay_images' = 0
    /\ action_previous' = SetupActionPrevious(action_previous)
    /\ max_steps' = AssignMaxSteps(cfg.task_suite_name, max_steps)
    /\ stored_now' = FALSE
    /\ obs' = [FreshObs EXCEPT !.file_before = LeafOf(files[Description(task)]),
                               !.file_start = files[Description(task)],
                               !.env_resets = 1,
                               !.start_logged = TRUE]
    /\ pc' = "while"
    /\ UNCHANGED <<sideVars, cfgVars, abort, taskVars, episode_idx, done, action, actions_previous,
                   tallyVars, files, data, ghostCounts>>

\* Line 210 with max_steps never assigned: NameError outside the try.
LoopAbort ==
    /\ pc = "while"
    /\ max_steps = Unbound
    /\ abort' = "NameError"
    /\ pc' = "aborted"
    /\ UNCHANGED <<sideVars, cfgVars, taskVars, episode_idx, init_state, t, done, max_steps,
                   replay_images, action, motionVars, tallyVars, files, data,
                   obs, ghostCounts>>

\* Line 210 false: the step budget is used up.
Timeout ==
    /\ pc = "while"
    /\ max_steps # Unbound
    /\ ~LoopContinues(t, Get(max_steps), cfg.num_steps_wait)
    /\ obs' = [obs EXCEPT !.ending = "timeout"]
    /\ pc' = "tally_task"
    /\ UNCHANGED <<sideVars, cfgVars, abort, taskVars, episode_idx, init_state, t, done, max_steps,
                   replay_images, action, motionVars, tallyVars, files, data,
                   ghostCounts>>

\* Lines 214-217 (and 331-334 when env.step raises): one settling step.
SettleStep ==
    /\ pc = "while"
    /\ max_steps # Unbound
    /\ LoopContinues(t, Get(max_steps), cfg.num_steps_wait)
    /\ IsSettling(t, cfg.num_steps_wait)
    /\ \E outcome \in {"raise", "done", "not_done"} :
        LET call == [t |-> t, kind |-> "dummy", raw |-> DummyAction, sent |-> DummyAction]
        IN  IF outcome = "raise"
            THEN /\ obs' = [obs EXCEPT !.env_trace = Append(@, call),
                                       !.caught = TRUE, !.ending = "exception"]
                 /\ pc' = "tally_task"
                 /\ UNCHANGED <<t, done>>
            ELSE /\ obs' = [obs EXCEPT !.env_trace = Append(@, call)]
                 /\ done' = Some(outcome = "done")
                 /\ t' = NextStep(t)
                 /\ pc' = "while"
    /\ UNCHANGED <<sideVars, cfgVars, abort, taskVars, episode_idx, init_state, max_steps,
                   replay_images, action, motionVars, tallyVars, files, data,
                   ghostCounts>>

\* Lines 219-258 (and 331-334): buffer the frame and query the policy.
QueryPolicy ==
    /\ pc = "while"
    /\ max_steps # Unbound
    /\ LoopContinues(t, Get(max_steps), cfg.num_steps_wait)
    /\ ~IsSettling(t, cfg.num_steps_wait)
    /\ replay_images' = replay_images + 1
    /\ \E raises \in BOOLEAN :
        IF raises
        THEN /\ obs' = [obs EXCEPT !.policy_log = Append(@, [t |-> t, out |-> Unbound]),
                                   !.caught = TRUE, !.ending = "exception"]
             /\ pc' = "tally_task"
             /\ UNCHANGED action
        ELSE /\ action' \in RawActions
             /\ obs' = [obs EXCEPT !.policy_log = Append(@, [t |-> t, out |-> action'])]
             /\ pc' = "track"
    /\ UNCHANGED <<sideVars, cfgVars, abort, taskVars, episode_idx, init_state, t, done, max_steps,
                   motionVars, tallyVars, files, data, ghostCounts>>

\* Lines 260-303: the replan branch (store the first action, compare the later ones).
TrackMotion ==
    /\ pc = "track"
    /\ IF ReplanEnabled(replan)
       THEN /\ IF NoPriorAction(action_previous)
               THEN obs' = [obs EXCEPT !.tracked = @ + 1]
               ELSE obs' = [obs EXCEPT
                        !.tracked = @ + 1,
                        !.reports = Append(@, [t |-> t,
                                               now |-> <<xyz(action), rot(action)>>,
                                               prev |-> actions_previous,
                                               prev_now |-> stored_now,
                                               line |-> IF actions_previous = Unbound
                                                        THEN Unbound
                                                        ELSE Similarity(
                                                               <<xyz(action), rot(action)>>,
                                                               actions_previous)])]
            /\ action_previous' = action
            /\ actions_previous' = <<xyz(action), rot(action)>>
            /\ stored_now' = TRUE
       ELSE UNCHANGED <<obs, action_previous, actions_previous, stored_now>>
    /\ pc' = "execute"
    /\ UNCHANGED <<sideVars, cfgVars, abort, taskVars, episode_idx, init_state, t, done, max_steps,
                   replay_images, action, tallyVars, files, data, ghostCounts>>

\* Lines 305-325, 329 (and 331-334): post-process, env.step, advance the counter.
ExecuteAction ==
    /\ pc = "execute"
    /\ action' = PostProcess(action, cfg.model_family)
    /\ \E outcome \in {"raise", "done", "not_done"} :
        LET call == [t |-> t, kind |-> "policy", raw |-> action, sent |-> action']
        IN  CASE outcome = "raise" ->
                 /\ obs' = [obs EXCEPT !.env_trace = Append(@, call),
                                       !.caught = TRUE, !.ending = "exception"]
                 /\ pc' = "tally_task"
                 /\ UNCHANGED <<t, done, ghostCounts>>
              [] outcome = "done" ->
                 /\ obs' = [obs EXCEPT !.env_trace = Append(@, call),
                                       !.acting_done = TRUE, !.ending = "done"]
                 /\ done' = Some(TRUE)
                 /\ task_done_count' = task_done_count + 1
                 /\ run_done_count' = run_done_count + 1
                 /\ pc' = "succ_task"
                 /\ UNCHANGED t
              [] outcome = "not_done" ->
                 /\ obs' = [obs EXCEPT !.env_trace = Append(@, call)]
                 /\ done' = Some(FALSE)
                 /\ t' = NextStep(t)
                 /\ pc' = "while"
                 /\ UNCHANGED ghostCounts
    /\ UNCHANGED <<sideVars, cfgVars, abort, taskVars, episode_idx, init_state, max_steps,
                   replay_images, motionVars, tallyVars, files, data>>

\* Line 326.
CountTaskSuccess ==
    /\ pc = "succ_task"
    /\ task_successes' = SuccessTally(task_successes)
    /\ obs' = [obs EXCEPT !.counted_task = TRUE]
    /\ pc' = "succ_total"
    /\ UNCHANGED <<sideVars, cfgVars, abort, taskVars, episode_idx, init_state, t, done, max_steps,
                   replay_images, action, motionVars, task_episodes, total_episodes,
                   total_successes, files, data, ghostCounts>>

\* Lines 327-328.
CountTotalSuccess ==
    /\ pc = "succ_total"
    /\ total_successes' = SuccessTally(total_successes)
    /\ obs' = [obs EXCEPT !.counted_total = TRUE]
    /\ pc' = "tally_task"
    /\ UNCHANGED <<sideVars, cfgVars, abort, taskVars, episode_idx, init_state, t, done, max_steps,
                   replay_images, action, motionVars, task_episodes, task_successes,
                   total_episodes, files, data, ghostCounts>>

\* Line 336.
CountTaskEpisode ==
    /\ pc = "tally_task"
    /\ task_episodes' = EpisodeTally(task_episodes)
    /\ pc' = "tally_total"
    /\ UNCHANGED <<sideVars, cfgVars, abort, taskVars, episode_idx, init_state, t, done, max_steps,
                   replay_images, action, motionVars, task_successes, total_episodes,
                   total_successes, files, data, obs, ghostCounts>>

\* Line 337.
CountTotalEpisode ==
    /\ pc = "tally_total"
    /\ total_episodes' = EpisodeTally(total_episodes)
    /\ pc' = "persist"
    /\ UNCHANGED <<sideVars, cfgVars, abort, taskVars, episode_idx, init_state, t, done, max_steps,
                   replay_images, action, motionVars, task_episodes, task_successes,
                   total_successes, files, data, obs, ghostCounts>>

\* Lines 340-356: load the task's file and bump the leaf in memory. json.load
\* raises on a file without JSON text; reading done before any env.step returned
\* in this run raises UnboundLocalError.
UpdateResult ==
    /\ pc = "persist"
    /\ IF LoadFails(files[Description(task)])
       THEN /\ abort' = "JSONDecodeError"
            /\ pc' = "aborted"
            /\ UNCHANGED data
       ELSE IF done = Unbound
       THEN /\ abort' = "UnboundLocalError"
            /\ data' = BumpLeaf(EnsureLeaf(LoadData(files[Description(task)])), FALSE)
            /\ pc' = "aborted"
       ELSE /\ data' = BumpLeaf(EnsureLeaf(LoadData(files[Description(task)])),
                                OutcomeFlag(done))
            /\ pc' = "write"
            /\ UNCHANGED abort
    /\ UNCHANGED <<sideVars, cfgVars, taskVars, episode_idx, init_state, t, done, max_steps,
                   replay_images, action, motionVars, tallyVars, files, obs,
                   ghostCounts>>

\* Line 358: open(file_path, 'w') creates the file or cuts it to length zero.
OpenResult ==
    /\ pc = "write"
    /\ files' = [files EXCEPT ![Description(task)] = Truncated]
    /\ pc' = "dump"
    /\ UNCHANGED <<sideVars, cfgVars, abort, taskVars, episode_idx, init_state, t, done, max_steps,
                   replay_images, action, motionVars, tallyVars, data, obs,
                   ghostCounts>>

\* Line 359 and the close of the with block: the dictionary reaches the file.
WriteResult ==
    /\ pc = "dump"
    /\ files' = [files EXCEPT ![Description(task)] = FileOf(data)]
    /\ pc' = "report"
    /\ UNCHANGED <<sideVars, cfgVars, abort, taskVars, episode_idx, init_state, t, done, max_steps,
                   replay_images, action, motionVars, tallyVars, data, obs,
                   ghostCounts>>

\* Lines 363-378: the replay video and the log lines of the episode.
ReportEpisode ==
    /\ pc = "report"
    /\ obs' = [obs EXCEPT !.video_tag = Some(OutcomeFlag(done)),
                          !.log_success = Some(OutcomeFlag(done))]
    /\ episode_idx' = episode_idx + 1
    /\ pc' = "episode_loop"
    /\ UNCHANGED <<sideVars, cfgVars, abort, taskVars, init_state, t, done, max_steps, replay_images,
                   action, motionVars, tallyVars, files, data, ghostCounts>>

\* Lines 381-384: float(successes) / float(episodes), kept as the fraction.
SuccessRate(successes, episodes) == <<successes, episodes>>

\* Lines 380-392: after the task's last episode; the rates logged here are
\* SuccessRate of the tallies, which stay as they are until the next task starts.
TaskEnd ==
    /\ pc = "episode_loop"
    /\ episode_idx >= cfg.num_trials_per_task
    /\ task_iter' = task_iter + 1
    /\ pc' = "task_loop"
    /\ UNCHANGED <<sideVars, cfgVars, abort, task_id, task, initial_states, env, episode_idx,
                   init_state, t, done, max_steps, replay_images, action, motionVars,
                   tallyVars, files, data, obs, ghostCounts>>

\* Lines 394-405: after the last task.
RunEnd ==
    /\ pc = "task_loop"
    /\ task_iter >= NumTasks
    /\ pc' = "finished"
    /\ UNCHANGED <<sideVars, cfgVars, abort, taskVars, episode_idx, init_state, t, done, max_steps,
                   replay_images, action, motionVars, tallyVars, files, data,
                   obs, ghostCounts>>

Next ==
    \/ TaskStart
    \/ EpisodeStart
    \/ LoopAbort
    \/ Timeout
    \/ SettleStep
    \/ QueryPolicy
    \/ TrackMotion
    \/ ExecuteAction
    \/ CountTaskSuccess
    \/ CountTotalSuccess
    \/ CountTaskEpisode
    \/ CountTotalEpisode
    \/ UpdateResult
    \/ OpenResult
    \/ WriteResult
    \/ ReportEpisode
    \/ TaskEnd
    \/ RunEnd

Spec == Init /\ [][Next]_vars

\* The script runs on one thread with nothing to wait for but the synchronous
\* policy and simulator calls: a step that can be taken is taken.
FairSpec == Spec /\ WF_vars(Next)

\* ------------------------------------------- several runs on one result file
\* Lines 340-356 in process r: load the file and bump the leaf in memory; the
\* flag is the episode's done.
RunLoad(r) ==
    /\ runs[r].at = "idle"
    /\ runs[r].updates < MaxUpdates
    /\ IF LoadFails(shared)
       THEN runs' = [runs EXCEPT ![r].at = "aborted"]
       ELSE \E flag \in BOOLEAN :
              runs' = [runs EXCEPT ![r].at = "loaded",
                                   ![r].data = BumpLeaf(EnsureLeaf(LoadData(shared)), flag)]
    /\ UNCHANGED <<evalVars, shared, probe, csv>>

\* Line 358 in process r.
RunOpen(r) ==
    /\ runs[r].at = "loaded"
    /\ shared' = Truncated
    /\ runs' = [runs EXCEPT ![r].at = "opened"]
    /\ UNCHANGED <<evalVars, probe, csv>>

\* Line 359 in process r: the update of the episode is complete.
RunDump(r) ==
    /\ runs[r].at = "opened"
    /\ shared' = FileOf(runs[r].data)
    /\ runs' = [runs EXCEPT ![r].at = "idle", ![r].updates = @ + 1]
    /\ UNCHANGED <<evalVars, probe, csv>>

SharedInit ==
    /\ EvalParked
    /\ ProbeIdle
    /\ CsvIdle
    /\ shared \in InitialFiles
    /\ runs = [r \in Runs |-> FreshRun(shared)]

SharedNext == \E r \in Runs : RunLoad(r) \/ RunOpen(r) \/ RunDump(r)

SharedSpec == SharedInit /\ [][SharedNext]_vars

\* --------------------------------------------- the similarity computation
\* The actions whose similarity is computed: the xyz part runs over every
\* vector of the component range whose length is a whole number, the rot part
\* over a sample of such vectors.
Components == (0 - MaxComponent) .. MaxComponent
Vectors == { v \in Components \X Components \X Components :
               \E n \in NormRange : n * n = Dot(v, v) }
RotSamples == { <<0, 0, 1>>, <<0, 0, -1>>, <<0, -2, 0>> }
Motions == Vectors \X RotSamples

\* Lines 267-286 on an acting step with a previous action: the line written to
\* motion_trace.out.
Measure ==
    /\ probe.at = "drawn"
    /\ probe' = [probe EXCEPT !.at = "measured",
                              !.line = Similarity(probe.cur, probe.prev)]
    /\ UNCHANGED <<evalVars, sharedVars, csv>>

\* Lines 301-303 and the next step's get_action (249): the action becomes the
\* previous one and the policy returns another.
NextAction ==
    /\ probe.at = "measured"
    /\ \E m \in Motions :
          probe' = [at |-> "drawn", prev |-> probe.cur, cur |-> m, line |-> <<>>]
    /\ UNCHANGED <<evalVars, sharedVars, csv>>

CosineInit ==
    /\ EvalParked
    /\ SharedIdle
    /\ CsvIdle
    /\ \E p \in Motions, c \in Motions :
          probe = [at |-> "drawn", prev |-> p, cur |-> c, line |-> <<>>]

CosineNext == Measure \/ NextAction

CosineSpec == CosineInit /\ [][CosineNext]_vars

\* ------------------------------------------------------------ convert_to_csv
\* A line is the sequence of its characters: a digit, the comma, the blank and
\* a character that is neither.
Chars == {"1", ",", " ", "x"}
Text(k) == UNION { [1 .. m -> Chars] : m \in 0 .. k }

\* Line 28, str.strip(): the line without its leading and trailing blanks.
Strip(l) ==
    LET solid == { i \in 1 .. Len(l) : l[i] # " " }
    IN  IF solid = {} THEN <<>>
        ELSE SubSeq(l, CHOOSE i \in solid : \A j \in solid : i <= j,
                       CHOOSE i \in solid : \A j \in solid : i >= j)

RECURSIVE SplitComma(_)
\* Line 33, str.split(','): the pieces between the commas, empty pieces included.
SplitComma(l) ==
    LET at == { i \in 1 .. Len(l) : l[i] = "," }
    IN  IF at = {} THEN <<l>>
        ELSE LET i == CHOOSE i \in at : \A j \in at : i <= j
             IN  <<SubSeq(l, 1, i - 1)>> \o SplitComma(SubSeq(l, i + 1, Len(l)))

RECURSIVE SplitBlank(_)
\* Line 35, str.split(): the maximal runs of non-blank characters.
SplitBlank(l) ==
    LET solid == { i \in 1 .. Len(l) : l[i] # " " }
    IN  IF solid = {} THEN <<>>
        ELSE LET a == CHOOSE i \in solid : \A j \in solid : i <= j
                 gaps == { i \in a .. Len(l) : l[i] = " " }
                 b == IF gaps = {} THEN Len(l) + 1
                      ELSE CHOOSE i \in gaps : \A j \in gaps : i <= j
             IN  <<SubSeq(l, a, b - 1)>> \o SplitBlank(SubSeq(l, b, Len(l)))

\* [v.strip() for v in ...]
StripAll(fields) == [k \in 1 .. Len(fields) |-> Strip(fields[k])]

\* Line 34: the comma split is given up.
NeedsFallback(values) == Len(values) # 4

\* Lines 33-35: the fields of a stripped line.
FieldsOf(line) ==
    LET values == StripAll(SplitComma(line))
    IN  IF NeedsFallback(values) THEN StripAll(SplitBlank(line)) ELSE values

\* Variant: lines with more than four fields are taken too.
HasFourFieldsOrMore(values) == Len(values) >= 4

\* Line 38.
HasFourFields(values) == Len(values) = 4

\* Line 41: float(v) succeeds on a non-empty string of digits and raises ValueError on
\* the empty string and on text with a comma, a blank or a letter in it.
IsFloat(v) == Len(v) > 0 /\ \A k \in 1 .. Len(v) : v[k] = "1"

RECURSIVE ToFloat(_)
\* Line 41, float(v): the number the digits denote.
ToFloat(v) == IF Len(v) = 0 THEN 0 ELSE 10 * ToFloat(SubSeq(v, 1, Len(v) - 1)) + 1

Header == <<"xyz_magnitude", "xyz_cosine_similarity", "rot_magnitude",
            "rot_cosine_similarity">>

\* Variant: a line whose fields do not convert is dropped.
RowsOfNumericOnly(values, number) ==
    IF \A k \in 1 .. 4 : IsFloat(values[k])
    THEN <<[kind |-> "floats", from |-> number,
            cells |-> [k \in 1 .. 4 |-> ToFloat(values[k])]]>>
    ELSE <<>>

\* Lines 39-45: the row written for a four-field line.
RowsOf(values, number) ==
    IF \A k \in 1 .. 4 : IsFloat(values[k])
    THEN <<[kind |-> "floats", from |-> number,
            cells |-> [k \in 1 .. 4 |-> ToFloat(values[k])]]>>
    ELSE <<[kind |-> "raw", from |-> number, cells |-> values]>>

\* Lines of a motion trace and of files that are not one: four fields with
\* commas, with blanks, with both; three and five fields; empty and blank
\* lines; fields that are no numbers.
SampleLines ==
    { <<"1", ",", "1", ",", "1", ",", "1">>,
      <<"1", " ", "1", " ", "1", " ", "1">>,
      <<" ", "1", ",", " ", "1", "1", " ", ",", "1", ",", "1", " ">>,
      <<"1", ",", "1", ",", "1">>,
      <<>>,
      <<" ", " ">>,
      <<"1", ",", "x", ",", "1", ",", "1">>,
      <<"1", ",", ",", "1", ",", "1">>,
      <<"1", ",", " ", "1", " ", "1", " ", "1">>,
      <<"1", ",", "1", ",", "1", ",", "1", ",", "1">>,
      <<"1", " ", "1", " ", "1", " ", "1", " ", "1">>,
      <<"x", " ", "x", " ", "x", " ", "x">> }

\* The files given to convert_to_csv: every one-line file up to MaxChars
\* characters and every file of up to MaxLines sample lines.
InputFiles ==
    { <<l>> : l \in Text(MaxChars) } \cup UNION { [1 .. m -> SampleLines] : m \in 0 .. MaxLines }

\* Lines 12-14: no input file, nothing is written.
CsvMissing ==
    /\ csv.at = "start"
    /\ ~csv.exists
    /\ csv' = [csv EXCEPT !.at = "returned"]
    /\ UNCHANGED <<evalVars, sharedVars, probe>>

\* Lines 16-25: both files are opened and the header is written.
CsvOpen ==
    /\ csv.at = "start"
    /\ csv.exists
    /\ csv' = [csv EXCEPT !.at = "lines",
                          !.rows = <<[kind |-> "header", from |-> 0, cells |-> Header]>>]
    /\ UNCHANGED <<evalVars, sharedVars, probe>>

\* Lines 27-47: one iteration of the loop over the input lines.
CsvLine ==
    /\ csv.at = "lines"
    /\ csv.n < Len(csv.input)
    /\ LET number == csv.n + 1
           line == Strip(csv.input[number])
           values == FieldsOf(line)
       IN  csv' =
             IF Len(line) = 0
             THEN [csv EXCEPT !.n = number]
             ELSE IF HasFourFields(values)
             THEN [csv EXCEPT !.n = number,
                              !.rows = @ \o RowsOf(values, number),
                              !.warnings =
                                  IF \A k \in 1 .. 4 : IsFloat(values[k]) THEN @
                                  ELSE Append(@, [number |-> number, kind |-> "as_is"])]
             ELSE [csv EXCEPT !.n = number,
                              !.warnings = Append(@, [number |-> number, kind |-> "skipping"])]
    /\ UNCHANGED <<evalVars, sharedVars, probe>>

\* Line 49: the input is used up, both files are closed.
CsvClose ==
    /\ csv.at = "lines"
    /\ csv.n = Len(csv.input)
    /\ csv' = [csv EXCEPT !.at = "done"]
    /\ UNCHANGED <<evalVars, sharedVars, probe>>

CsvInit ==
    /\ EvalParked
    /\ SharedIdle
    /\ ProbeIdle
    /\ \/ csv = [NoConversion EXCEPT !.at = "start"]
       \/ \E f \in InputFiles :
             csv = [NoConversion EXCEPT !.at = "start", !.exists = TRUE, !.input = f]

CsvNext == CsvMissing \/ CsvOpen \/ CsvLine \/ CsvClose

CsvSpec == CsvInit /\ [][CsvNext]_vars

\* ----------------------------------------------------------------- claims
Trials == cfg.num_trials_per_task
Wait == cfg.num_steps_wait
\* Positions between the end of the step loop and the next episode.
AfterLoop == {"tally_task", "tally_total", "persist", "write", "dump", "report"}
\* Positions inside one iteration of the task loop.
InTask == {"episode_loop", "while", "track", "execute", "succ_task", "succ_total"} \cup AfterLoop
InEpisode == InTask \ {"episode_loop"}
\* The leaf of the current task's result file.
CurrentLeaf == LeafOf(files[Description(task)])
\* s / e = 1.0
RateIsOne(r) == r[2] > 0 /\ r[1] = r[2]

\* C1: an exception caught in the step loop ends the episode as a failure and
\* never aborts the run: the run does not stop, no success tally moves, both
\* episode tallies grow by one and the episode loop goes on.
CaughtExceptionNeverAbortsRun ==
    obs.caught =>
        /\ pc # "aborted"
        /\ ~obs.counted_task /\ ~obs.counted_total
        /\ pc \in {"persist", "write", "dump", "report"} =>
              /\ task_episodes = episode_idx + 1
              /\ total_episodes = task_iter * Trials + episode_idx + 1

\* C2: every task index of the suite is evaluated with its own task, initial
\* states and environment, for exactly num_trials_per_task episodes, episode k
\* starting from the task's initial state k.
EveryTaskIndexIsEvaluated ==
    /\ pc \in InTask =>
          /\ task = Some(task_iter)
          /\ initial_states = Some(task_iter)
          /\ env = Some(task_iter)
    /\ pc \in InEpisode => init_state = <<task_iter, episode_idx>>
    /\ (pc = "episode_loop" /\ episode_idx >= Trials) => task_episodes = Trials

\* C3 as stated: successes never exceed episodes, in any state at all.
TalliesOrderedInEveryState ==
    /\ 0 <= task_successes /\ task_successes <= task_episodes
    /\ 0 <= total_successes /\ total_successes <= total_episodes

\* The states between a success increment and the matching episode increment.
InTaskWindow == obs.counted_task /\ pc \in {"succ_total", "tally_task"}
InTotalWindow == obs.counted_total /\ pc \in {"tally_task", "tally_total"}

\* C3 amended: successes are never negative; successes <= episodes holds in
\* every state outside the window between a success increment and the matching
\* episode increment, and inside the window successes = episodes + 1.
TalliesOrderedOutsideWindow ==
    /\ 0 <= task_successes /\ 0 <= total_successes
    /\ IF InTaskWindow THEN task_successes <= task_episodes + 1
                       ELSE task_successes <= task_episodes
    /\ IF InTotalWindow THEN total_successes <= total_episodes + 1
                        ELSE total_successes <= total_episodes

\* C3 witness: an episode of an all-success task has just been tallied.
AllSuccessTallied ==
    /\ pc = "persist"
    /\ obs.counted_task
    /\ task_successes = 2 /\ task_episodes = 2
    /\ total_successes = total_episodes

\* C4: after each episode the result file agrees with the tally: total_times
\* grew by one, and success_times grew by one, and the video and the log say
\* success, exactly when task_successes was incremented for that episode.
PersistedOutcomeMatchesTally ==
    /\ pc = "report" =>
          /\ CurrentLeaf.total_times = obs.file_before.total_times + 1
          /\ CurrentLeaf.success_times =
                obs.file_before.success_times + (IF obs.counted_task THEN 1 ELSE 0)
    /\ (pc = "episode_loop" /\ episode_idx > 0) =>
          /\ Get(obs.video_tag) = obs.counted_task
          /\ Get(obs.log_success) = obs.counted_task

\* C5: after a task's episodes task_successes is the number of its episodes in
\* which env.step reported done on an acting step; when that is every episode
\* the task tally is episodes = successes = num_trials_per_task, and a run of
\* such tasks logs a total success rate of 1.0.
SuccessTallyCountsDoneEpisodes ==
    /\ (pc = "episode_loop" /\ episode_idx >= Trials) =>
          /\ task_successes = task_done_count
          /\ task_done_count = Trials =>
                (task_successes = Trials /\ task_episodes = Trials)
    /\ pc \in {"task_loop", "finished"} =>
          /\ total_successes = run_done_count
          /\ (task_iter > 0 /\ run_done_count = task_iter * Trials) =>
                /\ RateIsOne(SuccessRate(task_successes, task_episodes))
                /\ RateIsOne(SuccessRate(total_successes, total_episodes))

\* C5 witness: a finished run in which every episode of every task succeeded.
AllEpisodesSucceeded ==
    /\ pc = "finished"
    /\ Trials >= 2
    /\ task_successes = Trials /\ task_episodes = Trials
    /\ run_done_count = NumTasks * Trials
    /\ RateIsOne(SuccessRate(total_successes, total_episodes))

\* The budget of the step loop, once max_steps is assigned.
Budget == Get(max_steps) + Wait
Calls == obs.env_trace
Queries == obs.policy_log

\* C6: the step loop issues at most max_steps + num_steps_wait environment
\* steps, every completed iteration advancing the step counter by one, and an
\* episode that ends on the budget has no success tally incremented.
StepLoopStaysWithinBudget ==
    max_steps # Unbound =>
        /\ Len(Calls) <= Budget
        /\ t <= Budget
        /\ pc = "while" => Len(Calls) = t
        /\ pc \in {"track", "execute"} => (Len(Calls) = t /\ t < Budget)
        /\ obs.ending = "timeout" =>
              /\ t = Budget /\ Len(Calls) = Budget
              /\ ~obs.counted_task /\ ~obs.counted_total /\ ~obs.acting_done

\* C6, as progress: a step loop that has been entered is left.
StepLoopIsLeft == (pc = "while") ~> (pc \in {"tally_task", "aborted"})

\* C6 witness: an episode ended by the budget, counted as a failure.
TimedOutEpisodeTallied ==
    /\ pc = "persist"
    /\ obs.ending = "timeout"
    /\ Wait >= 1
    /\ Len(Calls) = Budget
    /\ task_successes = 0 /\ task_episodes >= 1

\* C7: the first num_steps_wait environment steps of an episode send the no-op
\* action with no policy call, no frame and no similarity tracking; from step
\* counter num_steps_wait on every step is an acting step whose action comes
\* from a policy call made at that step counter.
SettlingStepsAreNoOps ==
    /\ \A i \in 1 .. Len(Calls) :
          /\ Calls[i].t = i - 1
          /\ i <= Wait => (Calls[i].kind = "dummy" /\ Calls[i].sent = DummyAction)
          /\ i > Wait => /\ Calls[i].kind = "policy"
                         /\ Len(Queries) >= i - Wait
                         /\ Queries[i - Wait].t = Calls[i].t
    /\ \A j \in 1 .. Len(Queries) : Queries[j].t = Wait + j - 1
    /\ t < Wait => /\ Queries = <<>>
                   /\ replay_images = 0
                   /\ obs.tracked = 0 /\ obs.reports = <<>>
                   /\ ~obs.acting_done /\ obs.ending \in {"none", "exception"}
    /\ replay_images = Len(Queries)

\* C7 witness: the settling steps are over and the first acting step, fed by
\* a policy call at step counter num_steps_wait, has been executed.
ActingAfterSettling ==
    /\ Wait >= 1
    /\ Len(Calls) = Wait + 1
    /\ Calls[1].kind = "dummy"
    /\ Calls[Wait + 1].kind = "policy"
    /\ Queries[1].t = Wait
    /\ pc = "while"

\* C8: action_previous is None when an episode's step loop starts, and every
\* similarity computation reads vectors stored during the same episode.
MotionMemoryDoesNotLeak ==
    /\ (pc = "while" /\ t = 0) => action_previous = None
    /\ (pc = "while" /\ Len(Queries) = 0) => action_previous = None
    /\ \A i \in 1 .. Len(obs.reports) : obs.reports[i].prev_now

\* C8 witness: a later episode compares two of its own actions although an
\* earlier episode left vectors behind.
LaterEpisodeComparesOwnActions ==
    /\ total_episodes >= 1
    /\ Len(obs.reports) = 1
    /\ obs.reports[1].prev_now
    /\ obs.tracked = 2
    /\ pc = "execute"

\* C9: the first acting step of an episode produces no similarity report: the
\* replan branch only stores the action then, and every report is made on a
\* later acting step from vectors that were stored.
FirstActingStepOnlyStores ==
    /\ Len(obs.reports) = (IF obs.tracked = 0 THEN 0 ELSE obs.tracked - 1)
    /\ \A i \in 1 .. Len(obs.reports) :
          /\ obs.reports[i].t = Wait + i
          /\ obs.reports[i].prev # Unbound
    /\ (pc = "execute" /\ Len(Queries) = 1 /\ ReplanEnabled(replan)) =>
          /\ obs.reports = <<>>
          /\ action_previous = action
          /\ actions_previous = <<xyz(action), rot(action)>>

\* C9 witness: the replan branch has run on the first acting step of an episode.
FirstActionStored ==
    /\ replan
    /\ pc = "execute"
    /\ Len(Queries) = 1
    /\ obs.tracked = 1
    /\ obs.reports = <<>>
    /\ action_previous = action

\* C10: with replanning disabled the replan branch never runs (nothing is
\* stored, compared or logged), the policy is called exactly once per acting
\* step, and env.step receives the post-processed action of that one call.
DisabledReplanUsesOriginalAction ==
    ~replan =>
        /\ obs.tracked = 0 /\ obs.reports = <<>>
        /\ action_previous = None /\ actions_previous = Unbound
        /\ \A i \in 1 .. Len(Calls) :
              Calls[i].kind = "policy" =>
                 LET mine == {j \in 1 .. Len(Queries) : Queries[j].t = Calls[i].t}
                 IN  /\ Cardinality(mine) = 1
                     /\ \A j \in mine :
                           Calls[i].sent = PostProcess(Queries[j].out, cfg.model_family)

\* C10 witness: two acting steps executed with replanning disabled.
TwoActingStepsWithoutReplan ==
    /\ ~replan
    /\ Len(Queries) = 2
    /\ Len(Calls) = Wait + 2
    /\ Calls[Wait + 2].raw # Calls[Wait + 1].raw

\* The get_action calls made at the step counter of a report.
QueriesAt(step) == {j \in 1 .. Len(Queries) : Queries[j].t = step}

PastBranch ==
    Len(Queries)
    - (IF pc = "track" THEN 1 ELSE 0)
    - (IF Len(Queries) > 0 /\ Queries[Len(Queries)].out = Unbound THEN 1 ELSE 0)

\* C12: a line is appended to the motion trace exactly on the acting steps on
\* which replanning is active and an earlier action of the episode exists: one
\* per acting step from the second on, none on settling steps or on the first
\* acting step, none when replanning is inactive.
TraceLinePerLaterActingStep ==
    /\ Len(obs.reports) = (IF replan /\ PastBranch >= 1 THEN PastBranch - 1 ELSE 0)
    /\ \A i \in 1 .. Len(obs.reports) :
          /\ obs.reports[i].t = Wait + i
          /\ obs.reports[i].t = Queries[i + 1].t
    /\ t < Wait => obs.reports = <<>>

\* C12 witness: the second acting step of an episode has appended its line
\* after settling steps that appended none.
SecondActingStepLogged ==
    /\ replan
    /\ Wait >= 1
    /\ Len(Calls) = Wait + 2
    /\ Len(obs.reports) = 1
    /\ obs.reports[1].t = Wait + 1

\* C13: a run whose task-suite name has no step budget fails before any
\* episode begins: when it has failed, the environment was never reset, no
\* initial state was set, no step was taken and no episode-start line was
\* logged.
UnmappedSuiteFailsBeforeAnyEpisode ==
    abort = "NameError" =>
        /\ obs.env_resets = 0
        /\ init_state = Unbound
        /\ Calls = <<>>
        /\ ~obs.start_logged

\* The (scale, rate) keys of the leaves of a dictionary.
Leaves(d) == { kb \in (DOMAIN d) \X {BerKey, OtherBerKey} : kb[2] \in DOMAIN d[kb[1]] }
OwnLeaf == <<ScaleKey, BerKey>>

\* C15: after every completed update of a run, each leaf the file held before
\* the episode is still there, the leaf of the run's signature with counters no
\* lower than before and the leaves of other signatures as they were, and in
\* every leaf success_times <= total_times.
UpdateKeepsCountersAndOtherLeaves ==
    pc = "report" =>
        LET old == obs.file_start.content
            new == files[Description(task)].content
        IN  /\ files[Description(task)].parses
            /\ \A kb \in Leaves(old) :
                  /\ kb \in Leaves(new)
                  /\ new[kb[1]][kb[2]].total_times >= old[kb[1]][kb[2]].total_times
                  /\ new[kb[1]][kb[2]].success_times >= old[kb[1]][kb[2]].success_times
                  /\ kb # OwnLeaf => new[kb[1]][kb[2]] = old[kb[1]][kb[2]]
            /\ \A kb \in Leaves(new) :
                  new[kb[1]][kb[2]].success_times <= new[kb[1]][kb[2]].total_times

\* C15 witness: a second update of the run has been written to a file that
\* came with this run's leaf and leaves of other signatures.
SecondUpdateBesideOtherLeaves ==
    /\ pc = "report"
    /\ total_episodes = 2
    /\ Cardinality(Leaves(obs.file_start.content)) = 3
    /\ CurrentLeaf.total_times = 3

\* C16: the run can be stopped by the operating system in any state, so the
\* file as it stands in every state is what a termination leaves: it holds
\* JSON text, and every leaf it held before the episode with counters no lower.
ResultFileSurvivesTermination ==
    task # Unbound =>
        LET old == obs.file_start.content
            now == files[Description(task)]
        IN  /\ now.exists => now.parses
            /\ \A kb \in Leaves(old) :
                  /\ kb \in Leaves(now.content)
                  /\ now.content[kb[1]][kb[2]].total_times >= old[kb[1]][kb[2]].total_times
                  /\ now.content[kb[1]][kb[2]].success_times >= old[kb[1]][kb[2]].success_times

\* C20: every acting step sends to env.step the action the policy returned on
\* that step after normalize_gripper_action(binarize=True) and then
\* invert_gripper_action, and the step counter moves by one only after an
\* env.step that returned without done: the calls of an episode carry the
\* counters 0, 1, 2, ... and a step that reported done leaves the counter alone.
ActingStepSendsPipelinedAction ==
    /\ \A i \in 1 .. Len(Calls) :
          /\ Calls[i].t = i - 1
          /\ Calls[i].kind = "policy" =>
                /\ cfg.model_family = "openvla"
                /\ \E j \in QueriesAt(Calls[i].t) :
                      /\ Queries[j].out # Unbound
                      /\ Calls[i].sent =
                            invert_gripper_action(
                                normalize_gripper_action(Queries[j].out, TRUE))
    /\ pc \in {"while", "track", "execute"} => t = Len(Calls)
    /\ obs.acting_done => t = Calls[Len(Calls)].t

\* C20 witness: an acting step went on without done and the next one, sending a
\* closing gripper command, reported done.
DoneOnSecondActingStep ==
    /\ obs.acting_done
    /\ Len(Calls) = Wait + 2
    /\ Calls[Wait + 1].kind = "policy"
    /\ t = Wait + 1
    /\ Calls[Len(Calls)].sent[7] = 1

\* Updates completed by the two processes.
AllUpdates == runs[1].updates + runs[2].updates
\* Process r is the only one that has touched the file.
OnlyWriter(r) == \A o \in Runs \ {r} : runs[o].at = "idle" /\ runs[o].updates = 0
SharedLeaf == LeafOf(shared)

\* C14: with a single writer the leaf's total_times has grown by exactly the
\* number of updates completed; with several writers it never counts more than
\* the updates completed (and may count fewer: the witness).
SingleWriterCountsEveryUpdate ==
    /\ \A r \in Runs :
          OnlyWriter(r) /\ runs[r].at = "idle" =>
              SharedLeaf.total_times = runs[r].start.total_times + runs[r].updates
    /\ shared.parses =>
          SharedLeaf.total_times <= runs[1].start.total_times + AllUpdates

\* C14 witness: two processes interleaved their load and write, both completed
\* their update, none failed, and the file counts one update fewer.
InterleavedWritersLoseUpdate ==
    /\ \A r \in Runs : runs[r].at = "idle"
    /\ runs[1].updates = 1 /\ runs[2].updates = 1
    /\ AllUpdates = 2
    /\ SharedLeaf.total_times = runs[1].start.total_times + 1

NonZero(v) == Dot(v, v) > 0
\* -1 <= q <= 1 for a quotient with positive denominator.
InUnitInterval(q) == q[2] > 0 /\ 0 - q[2] <= q[1] /\ q[1] <= q[2]

\* C17: for consecutive actions whose xyz and rot parts are all non-zero, both
\* cosines of the similarity line lie in [-1, 1].
CosinesWithinUnitInterval ==
    (/\ probe.at = "measured"
     /\ \A k \in 1 .. 2 : NonZero(probe.cur[k]) /\ NonZero(probe.prev[k])) =>
        /\ InUnitInterval(probe.line.xyz_changes_dir)
        /\ InUnitInterval(probe.line.rot_changes_dir)

\* C17 witness: the action reverses the previous one in both parts, the case
\* closest to -1, which nothing clamps.
ReversedMotionMeasured ==
    /\ probe.at = "measured"
    /\ \A k \in 1 .. 2 :
          /\ NonZero(probe.cur[k])
          /\ \A j \in 1 .. 3 : probe.cur[k][j] = 0 - probe.prev[k][j]
    /\ probe.line.xyz_changes_dir[1] + probe.line.xyz_changes_dir[2] = 1
    /\ probe.line.rot_changes_dir[1] < 0

\* Counted on the line as read: the commas, the runs of non-blank characters.
Commas(l) == Cardinality({ i \in 1 .. Len(l) : l[i] = "," })
Words(l) == Cardinality({ i \in 1 .. Len(l) : l[i] # " " /\ (i = 1 \/ l[i - 1] = " ") })
Blank(l) == \A i \in 1 .. Len(l) : l[i] = " "
\* Four fields on the comma split or, failing that, on the whitespace split.
Qualifies(l) == ~Blank(l) /\ (Commas(l) = 3 \/ Words(l) = 4)
RowsFrom(m) == { k \in 2 .. Len(csv.rows) : csv.rows[k].from = m }
Warned(m, kind) == \E w \in 1 .. Len(csv.warnings) :
                      csv.warnings[w] = [number |-> m, kind |-> kind]

\* C18: the output starts with the header; after it come, in input order and
\* at most one per line, the rows of exactly the lines read so far that are not
\* blank and have four fields on the comma split or else on the whitespace
\* split; the other non-blank lines are skipped with a warning, blank lines
\* leave neither row nor warning; without input file nothing is written.
HeaderThenRowPerFourFieldLine ==
    /\ csv.at \in {"start", "returned"} => csv.rows = <<>>
    /\ csv.at \in {"lines", "done"} =>
          /\ Len(csv.rows) >= 1
          /\ csv.rows[1].kind = "header" /\ csv.rows[1].cells = Header
          /\ \A k \in 2 .. Len(csv.rows) :
                /\ csv.rows[k].kind \in {"floats", "raw"}
                /\ csv.rows[k].from \in 1 .. csv.n
                /\ k > 2 => csv.rows[k - 1].from < csv.rows[k].from
          /\ \A m \in 1 .. csv.n :
                /\ RowsFrom(m) # {} <=> Qualifies(csv.input[m])
                /\ Warned(m, "skipping") <=>
                      ~Blank(csv.input[m]) /\ ~Qualifies(csv.input[m])
                /\ Blank(csv.input[m]) =>
                      ~Warned(m, "skipping") /\ ~Warned(m, "as_is")

\* C18 witness: a three-field line was skipped with a warning and the line
\* after it, four fields separated by blanks, gave the only row.
SkippedLineThenBlankSeparatedRow ==
    /\ csv.at = "done"
    /\ Len(csv.input) = 2
    /\ Commas(csv.input[1]) = 2 /\ Warned(1, "skipping")
    /\ Commas(csv.input[2]) = 0
    /\ Len(csv.rows) = 2 /\ csv.rows[2].from = 2

Unparseable(l) == \E k \in 1 .. 4 : ~IsFloat(FieldsOf(Strip(l))[k])

\* C19: a four-field line with a field that is no number gives one row holding
\* its four fields as text, and the conversion goes on: the lines after it
\* are read to the end of the input and give their rows.
UnparseableLineWrittenAsText ==
    /\ \A m \in 1 .. csv.n :
          Qualifies(csv.input[m]) /\ Unparseable(csv.input[m]) =>
              /\ Cardinality(RowsFrom(m)) = 1
              /\ \A k \in RowsFrom(m) :
                    /\ csv.rows[k].kind = "raw"
                    /\ Len(csv.rows[k].cells) = 4
                    /\ csv.rows[k].cells = FieldsOf(Strip(csv.input[m]))
              /\ \A later \in m + 1 .. csv.n :
                    Qualifies(csv.input[later]) => RowsFrom(later) # {}
    /\ csv.at = "done" => csv.n = Len(csv.input)

\* C19 witness: a line with a letter in a field was written as text and the
\* numeric line after it as numbers.
TextRowThenNumberRow ==
    /\ csv.at = "done"
    /\ Len(csv.rows) = 3
    /\ csv.rows[2].kind = "raw" /\ csv.rows[2].from = 1
    /\ \E k \in 1 .. 4 : csv.rows[2].cells[k] = <<"x">>
    /\ csv.rows[3].kind = "floats" /\ csv.rows[3].from = 2

\* The episode made all its settling steps, each env.step returning, and was
\* ended by an exception of the first policy call: no acting step reached
\* env.step, and the local done holds what the last settling step reported.
EndedRightAfterSettling ==
    /\ Wait >= 1
    /\ Len(Calls) = Wait
    /\ Len(Queries) = 1 /\ Queries[1].out = Unbound
    /\ obs.ending = "exception"

\* C21: a done reported on a settling step is ignored: the step loop goes on,
\* no success tally moves while only settling steps have run, and an episode
\* that ends without an acting step reporting done is not recorded as a
\* success in the result file, the video tag or the log.
DoneWhileSettlingIsIgnored ==
    /\ (pc = "while" /\ 1 <= t /\ t <= Wait /\ done = Some(TRUE)) =>
          /\ obs.ending = "none"
          /\ Len(Calls) = t
    /\ Len(Calls) <= Wait => ~obs.counted_task /\ ~obs.counted_total /\ ~obs.acting_done
    /\ EndedRightAfterSettling =>
          /\ pc = "report" =>
                CurrentLeaf.success_times = obs.file_before.success_times
          /\ obs.video_tag # Unbound => obs.video_tag = Some(FALSE)
          /\ obs.log_success # Unbound => obs.log_success = Some(FALSE)

====
